---- MODULE Spec2Model ----
(***************************************************************************)
(* Model of yotsuuba/text2midi, src/app.py: the TextToMIDI class.          *)
(*                                                                         *)
(*   - process_romaji / process_text : the two tokenizers, as one          *)
(*     iteration operator each (RomajiStep, KanaStep), as total functions  *)
(*     (process_romaji, process_text) and as a step machine (SpecTok).     *)
(*   - create_midi : the timeline scheduler, one action per statement      *)
(*     group of the loop over lines, words and units (Spec).               *)
(*                                                                         *)
(* A string is a sequence of characters; a character is a short TLA+       *)
(* string.  Latin letters are themselves ("s", "S"); kana are named by a   *)
(* script prefix and their romanisation: "h_ka" is HIRAGANA KA, "h_xya"    *)
(* is HIRAGANA SMALL YA, "h_xtu" is the sokuon, "k_xke" is KATAKANA SMALL  *)
(* KE.  Indices are 0-based as in the source; At(s, k) is s[k].            *)
(*                                                                         *)
(* Times are integers counted in ticks, TicksPerSecond ticks to a second,  *)
(* so that the default label_silence_duration of 0.5 s is a whole number.  *)
(***************************************************************************)
EXTENDS Integers, Sequences, FiniteSets, TLC

(***************************************************************************)
(* Bounds of the model.                                                    *)
(***************************************************************************)
MaxTokLen == 4          \* longest token enumerated for the tokenizers
MaxTextLen == 5         \* longest text enumerated for create_midi
MaxLsd == 5             \* largest label_silence_duration, in ticks
TicksPerSecond == 2     \* resolution of the time grid

(***************************************************************************)
(* Python helpers.                                                         *)
(***************************************************************************)
Min(a, b) == IF a < b THEN a ELSE b
Max(a, b) == IF a > b THEN a ELSE b

\* s[k], 0-based.  An index outside the string raises IndexError in Python;
\* here it yields a value that is no character, and the iteration operators
\* report the index they touched, so that such a read is visible.
At(s, k) == IF k + 1 \in DOMAIN s THEN s[k + 1] ELSE "IndexError"

\* s[a:b], 0-based, end-exclusive, clipped to the string as Python slices are
Slice(s, a, b) == SubSeq(s, a + 1, Min(b, Len(s)))

\* ''.join(units)
RECURSIVE join(_)
join(units) == IF units = <<>> THEN <<>> ELSE Head(units) \o join(Tail(units))

(***************************************************************************)
(* TextToMIDI.__init__ : the character classes and the combination table.  *)
(***************************************************************************)
\* special_chars['small_kana'] (representatives: small ya, small katakana a)
small_kana == {"h_xya", "k_xa"}

\* special_chars['sokuon'] (hiragana and katakana small tsu)
sokuon == {"h_xtu", "k_xtu"}

\* special_chars['small_katakana'] (representatives: small a, which is in
\* small_kana too, and small ke, which is not)
small_katakana == {"k_xa", "k_xke"}

romaji_combinations ==
    { <<"c","h">>, <<"s","h">>, <<"t","s">>, <<"t","h">>,
      <<"k","y">>, <<"g","y">>, <<"n","y">>, <<"h","y">>, <<"r","y">>, <<"t","y">>,
      <<"k","w">>, <<"g","w">>,
      <<"d","z">>,
      <<"a","i">>, <<"e","i">>, <<"o","i">>, <<"u","i">>, <<"a","u">>, <<"o","u">>, <<"e","u">>,
      <<"s","u","i">>, <<"h","u","i">>, <<"k","u","i">>, <<"g","u","i">>,
      <<"t","s","u","i">>, <<"c","h","u","i">>,
      <<"r","y","u">>, <<"k","y","u">>, <<"g","y","u">>, <<"h","y","u">>, <<"n","y","u">>,
      <<"s","h","a">>, <<"s","h","i">>, <<"s","h","u">>, <<"s","h","o">>,
      <<"c","h","a">>, <<"c","h","i">>, <<"c","h","u">>, <<"c","h","o">>,
      <<"t","s","u">>, <<"t","s","a">>, <<"t","s","i">>, <<"t","s","o">> }

\* 'aiueo' (lines 75, 89)
Vowels == {"a", "i", "u", "e", "o"}

\* 'bcdfghjklmnpqrstvwxyz' (line 89)
Consonants == {"b","c","d","f","g","h","j","k","l","m","n","p","q","r","s","t",
               "v","w","x","y","z"}

\* [A-Z] of the regular expression of is_romaji (representatives)
UpperLetters == {"A", "E", "H", "S"}

\* str.lower(), per character
LowerChar(c) ==
    CASE c = "A" -> "a"
      [] c = "E" -> "e"
      [] c = "H" -> "h"
      [] c = "S" -> "s"
      [] OTHER -> c

\* text.lower()
lower(text) == [k \in 1..Len(text) |-> LowerChar(text[k])]

\* is_romaji: re.match(r'^[a-zA-Z]+$', text)
is_romaji(text) ==
    /\ Len(text) > 0
    /\ \A k \in 1..Len(text) : text[k] \in (Vowels \cup Consonants \cup UpperLetters)

(***************************************************************************)
(* One iteration of the while loop of process_romaji at index i of the     *)
(* lowered text.  The result says what the iteration appends (emit, a      *)
(* sequence of zero or one unit), how far it advances i (adv), which       *)
(* branch it took (rule) and the highest index of text it touched (read).  *)
(***************************************************************************)
\* line 66: if i + 2 < len(text)
ThreeOk_short(text, i) == i + 3 < Len(text)
ThreeOk(text, i) == i + 2 < Len(text)

\* line 81: if i + 1 < len(text)
TwoOk(text, i) == i + 1 < Len(text)

RomajiStep(text, i, rest) ==
    IF At(text, i) = "_"
    THEN [emit |-> IF rest THEN << <<"_">> >> ELSE <<>>,
          adv |-> 1, rule |-> "underscore", read |-> i]
    ELSE
    LET three_ok    == ThreeOk(text, i)
        three_chars == Slice(text, i, i + 3)
        two_ok      == TwoOk(text, i)
        two_chars   == Slice(text, i, i + 2)
        read        == IF three_ok THEN i + 2 ELSE IF two_ok THEN i + 1 ELSE i
    IN  IF three_ok /\ three_chars \in romaji_combinations
        THEN [emit |-> <<three_chars>>, adv |-> 3, rule |-> "table3", read |-> read]
        ELSE IF /\ three_ok
                /\ Slice(three_chars, 0, 2) \in romaji_combinations
                /\ At(three_chars, 2) \in Vowels
        THEN [emit |-> <<three_chars>>, adv |-> 3, rule |-> "cluster_vowel3", read |-> read]
        ELSE IF two_ok /\ two_chars \in romaji_combinations
        THEN [emit |-> <<two_chars>>, adv |-> 2, rule |-> "table2", read |-> read]
        ELSE IF /\ two_ok
                /\ At(two_chars, 0) \in Consonants
                /\ At(two_chars, 1) \in Vowels
        THEN [emit |-> <<two_chars>>, adv |-> 2, rule |-> "consonant_vowel2", read |-> read]
        ELSE [emit |-> << <<At(text, i)>> >>, adv |-> 1, rule |-> "single", read |-> read]

(***************************************************************************)
(* One iteration of the while loop of the kana path of process_text.       *)
(***************************************************************************)
\* line 121: if i < len(chars) - 1
HasNext_late(chars, i) == i < Len(chars) - 2
HasNext_past(chars, i) == i < Len(chars)
HasNext(chars, i) == i < Len(chars) - 1

KanaStep(chars, i, rest) ==
    IF At(chars, i) = "_"
    THEN [emit |-> IF rest THEN << <<"_">> >> ELSE <<>>,
          adv |-> 1, rule |-> "underscore", read |-> i]
    ELSE
    LET current_char == At(chars, i)
    IN  IF HasNext(chars, i)
        THEN LET next_char == At(chars, i + 1)
             IN  IF next_char \in small_kana
                 THEN [emit |-> << <<current_char, next_char>> >>, adv |-> 2,
                       rule |-> "small_kana", read |-> i + 1]
                 ELSE IF current_char \in sokuon
                 THEN IF i < Len(chars) - 2 /\ At(chars, i + 2) \in small_kana
                      THEN [emit |-> << <<At(chars, i + 1), At(chars, i + 2)>> >>,
                            adv |-> 3, rule |-> "sokuon_small", read |-> i + 2]
                      ELSE [emit |-> << <<At(chars, i + 1)>> >>, adv |-> 2,
                            rule |-> "sokuon",
                            read |-> IF i < Len(chars) - 2 THEN i + 2 ELSE i + 1]
                 ELSE IF next_char \in small_katakana
                 THEN [emit |-> << <<current_char, next_char>> >>, adv |-> 2,
                       rule |-> "small_katakana", read |-> i + 1]
                 ELSE [emit |-> << <<current_char>> >>, adv |-> 1,
                       rule |-> "alone", read |-> i + 1]
        ELSE [emit |-> << <<current_char>> >>, adv |-> 1, rule |-> "final", read |-> i]

(***************************************************************************)
(* The tokenizers as functions: the loops run to the end of the text.      *)
(***************************************************************************)
RECURSIVE RomajiLoop(_, _, _)
RomajiLoop(text, i, rest) ==
    IF i < Len(text)
    THEN LET s == RomajiStep(text, i, rest)
         IN  s.emit \o RomajiLoop(text, i + s.adv, rest)
    ELSE <<>>

process_romaji(text, rest) == RomajiLoop(lower(text), 0, rest)

RECURSIVE KanaLoop(_, _, _)
KanaLoop(chars, i, rest) ==
    IF i < Len(chars)
    THEN LET s == KanaStep(chars, i, rest)
         IN  s.emit \o KanaLoop(chars, i + s.adv, rest)
    ELSE <<>>

process_text(text, rest) ==
    IF is_romaji(text) THEN process_romaji(text, rest) ELSE KanaLoop(text, 0, rest)

(***************************************************************************)
(* State.                                                                  *)
(*   Tokenizer call (process_text on one token):                           *)
(*     tok        the argument                                             *)
(*     rest       self.treat_underscore_as_rest (shared with create_midi)  *)
(*     tpc        position in process_text / process_romaji                *)
(*     t          the string the loop scans (text.lower() or list(text))   *)
(*     i          the loop index                                           *)
(*     processed  the list built so far                                    *)
(*     rule, adv, read   branch, advance and highest index touched by the  *)
(*                last iteration                                           *)
(***************************************************************************)
(*   Scheduler call (create_midi on one text):                             *)
(*     text, lsd      the argument and self.label_silence_duration (ticks) *)
(*     pc             position in create_midi                              *)
(*     lines, words   what the two for loops have still to visit           *)
(*     units          what the loop over the units has still to visit      *)
(*     item_start     cluster_start / note_start                           *)
(*     item_text      the text of the label to come                        *)
(*     current_time, labels, last_note_end   the locals of those names     *)
(*     notes          the notes given to midi.addNote, in order, with      *)
(*                    their start and duration in ticks (before the        *)
(*                    conversion to beats) and the index of the label of   *)
(*                    the line or word they belong to                      *)
(*     total          the third component of the returned tuple            *)
(***************************************************************************)
VARIABLES tok, rest, tpc, t, i, processed, rule, adv, read,
          text, lsd, pc, lines, words, units, item_start, item_text,
          current_time, labels, last_note_end, notes, total

tokvars == <<tok, tpc, t, i, processed, rule, adv, read>>

midivars == <<text, lsd, pc, lines, words, units, item_start, item_text,
              current_time, labels, last_note_end, notes, total>>

vars == <<tok, rest, tpc, t, i, processed, rule, adv, read,
          text, lsd, pc, lines, words, units, item_start, item_text,
          current_time, labels, last_note_end, notes, total>>

\* No create_midi call is in progress
MidiIdle ==
    /\ text = <<>> /\ lsd = 0 /\ pc = "idle" /\ lines = <<>> /\ words = <<>>
    /\ units = <<>> /\ item_start = 0 /\ item_text = <<>> /\ current_time = 0
    /\ labels = <<>> /\ last_note_end = 0 /\ notes = <<>> /\ total = 0

\* No tokenizer call is in progress
TokIdle ==
    /\ tok = <<>> /\ tpc = "idle" /\ t = <<>> /\ i = 0 /\ processed = <<>>
    /\ rule = "none" /\ adv = 0 /\ read = -1

\* Sequences over S of length lo..hi
SeqsOf(S, lo, hi) == UNION {[1..n -> S] : n \in lo..hi}

\* Characters the enumerated tokens are built from: Latin letters (sha is a
\* table entry, she a table cluster plus vowel, sh a cluster, sa/ha
\* consonant plus vowel), a plain kana, a small kana, a small katakana
\* outside small_kana, a sokuon and the underscore.
TokChars == {"s", "h", "a", "e", "h_ka", "h_xya", "k_xke", "h_xtu", "_"}

\* Tokens of the documented examples (shashi, kyo, ki + small ya,
\* sokuon + ka), a token that is a 4-letter table entry (tsui) and tokens
\* with upper-case letters (Sha, SHE)
ExampleTokens ==
    { <<"s","h","a","s","h","i">>, <<"k","y","o">>, <<"t","s","u","i">>,
      <<"h_ki","h_xya">>, <<"h_xtu","h_ka">>,
      <<"S","h","a">>, <<"S","H","E">> }

TokInputs == SeqsOf(TokChars, 1, MaxTokLen) \cup ExampleTokens

TokInit ==
    /\ tok \in TokInputs
    /\ rest \in BOOLEAN
    /\ tpc = "process_text"
    /\ t = <<>>
    /\ i = 0
    /\ processed = <<>>
    /\ rule = "none"
    /\ adv = 0
    /\ read = -1
    /\ MidiIdle

\* process_text, lines 102-103: a Latin token is handed to process_romaji
CallRomaji ==
    /\ tpc = "process_text"
    /\ is_romaji(tok)
    /\ t' = lower(tok)
    /\ i' = 0
    /\ processed' = <<>>
    /\ tpc' = "romaji_loop"
    /\ UNCHANGED <<tok, rest, rule, adv, read, midivars>>

\* process_text, lines 106-108: any other token is scanned as kana
EnterKana ==
    /\ tpc = "process_text"
    /\ ~is_romaji(tok)
    /\ t' = tok
    /\ i' = 0
    /\ processed' = <<>>
    /\ tpc' = "kana_loop"
    /\ UNCHANGED <<tok, rest, rule, adv, read, midivars>>

\* process_romaji, lines 57-96: one iteration of the while loop
RomajiIter ==
    /\ tpc = "romaji_loop"
    /\ i < Len(t)
    /\ LET s == RomajiStep(t, i, rest)
       IN  /\ processed' = processed \o s.emit
           /\ i' = i + s.adv
           /\ rule' = s.rule
           /\ adv' = s.adv
           /\ read' = s.read
    /\ UNCHANGED <<tok, rest, tpc, t, midivars>>

\* process_text, lines 110-144: one iteration of the while loop
KanaIter ==
    /\ tpc = "kana_loop"
    /\ i < Len(t)
    /\ LET s == KanaStep(t, i, rest)
       IN  /\ processed' = processed \o s.emit
           /\ i' = i + s.adv
           /\ rule' = s.rule
           /\ adv' = s.adv
           /\ read' = s.read
    /\ UNCHANGED <<tok, rest, tpc, t, midivars>>

\* lines 98 and 146: the loop condition fails, return processed
TokReturn ==
    /\ tpc \in {"romaji_loop", "kana_loop"}
    /\ ~(i < Len(t))
    /\ tpc' = "done"
    /\ UNCHANGED <<tok, rest, t, i, processed, rule, adv, read, midivars>>

TokNext == CallRomaji \/ EnterKana \/ RomajiIter \/ KanaIter \/ TokReturn

SpecTok == TokInit /\ [][TokNext]_vars

\* The call is synchronous and single-threaded: it runs until it returns.
SpecTokFair == SpecTok /\ WF_vars(TokNext)

(***************************************************************************)
(* create_midi.                                                            *)
(***************************************************************************)
\* __init__, lines 15, 16, 18: 2 seconds each
note_duration == 2 * TicksPerSecond
silence_duration == 2 * TicksPerSecond
final_silence == 2 * TicksPerSecond

\* __init__, line 11: label_silence_duration=0.5
default_label_silence_duration == TicksPerSecond \div 2

\* The characters str.strip() and str.split() take for whitespace
Whitespace == {" ", "\n"}

RECURSIVE lstrip(_)
lstrip(s) ==
    IF s # <<>> /\ Head(s) \in Whitespace THEN lstrip(Tail(s)) ELSE s

RECURSIVE rstrip(_)
rstrip(s) ==
    IF s # <<>> /\ s[Len(s)] \in Whitespace THEN rstrip(SubSeq(s, 1, Len(s) - 1)) ELSE s

\* str.strip()
strip(s) == rstrip(lstrip(s))

\* str.split(sep): the pieces between the separators, empty ones included
RECURSIVE split_sep(_, _)
split_sep(s, sep) ==
    IF \E k \in 1..Len(s) : s[k] = sep
    THEN LET k == CHOOSE k \in 1..Len(s) :
                      s[k] = sep /\ \A j \in 1..(k - 1) : s[j] # sep
         IN  <<SubSeq(s, 1, k - 1)>> \o split_sep(SubSeq(s, k + 1, Len(s)), sep)
    ELSE <<s>>

\* str.split(): the maximal runs of non-whitespace
RECURSIVE split(_)
split(s) ==
    LET r == lstrip(s)
    IN  IF r = <<>> THEN <<>>
        ELSE LET n == CHOOSE n \in 1..Len(r) :
                          /\ \A j \in 1..n : r[j] \notin Whitespace
                          /\ (n = Len(r) \/ r[n + 1] \in Whitespace)
             IN  <<SubSeq(r, 1, n)>> \o split(SubSeq(r, n + 1, Len(r)))

\* line 165
is_cluster(line) == Len(split(strip(line))) = 1 /\ Len(strip(line)) > 1

\* lines 173 and 205: char == '_' and self.treat_underscore_as_rest
IsRest(char, flag) == char = <<"_">> /\ flag

\* lines 174 and 206: current_time += self.note_duration, for a rest
AfterRest_short(time) == time + note_duration - 1
AfterRest(time) == time + note_duration

\* lines 180 and 212: current_time += self.note_duration, for a note
AfterNote_stuck(time) == time
AfterNote(time) == time + note_duration

\* lines 182 and 214: max(0, start - self.label_silence_duration)
LabelStart(start, silence) == Max(0, start - silence)

\* lines 183 and 215
LabelEnd(time, silence) == time + silence

\* lines 185-186 and 217-218: clamp to the previous label's end
ClampStart_none(label_start, ls) == label_start
ClampStart(label_start, ls) ==
    IF ls # <<>> THEN Max(label_start, ls[Len(ls)].end) ELSE label_start

\* lines 231: the duration returned
TotalDuration(last_end, cursor) == last_end + final_silence

\* Characters the enumerated texts are built from: a kana, the underscore,
\* a blank and a line break
MidiChars == {"h_a", "_", " ", "\n"}

\* The text of the specification's example: a, line break, i u, line break
ExampleTexts == { <<"h_a", "\n", "h_i", "h_u", "\n">> }

TextInputs == SeqsOf(MidiChars, 0, MaxTextLen) \cup ExampleTexts

Init ==
    /\ text \in TextInputs
    /\ lsd \in 0..MaxLsd
    /\ rest \in BOOLEAN
    /\ pc = "start"
    /\ lines = <<>>
    /\ words = <<>>
    /\ units = <<>>
    /\ item_start = 0
    /\ item_text = <<>>
    /\ current_time = 0
    /\ labels = <<>>
    /\ last_note_end = 0
    /\ notes = <<>>
    /\ total = 0
    /\ TokIdle

\* lines 156-159
Start ==
    /\ pc = "start"
    /\ lines' = split_sep(strip(text), "\n")
    /\ current_time' = silence_duration
    /\ labels' = <<>>
    /\ last_note_end' = 0
    /\ pc' = "for_line"
    /\ UNCHANGED <<text, lsd, rest, words, units, item_start, item_text, notes,
                   total, tokvars>>

\* lines 161-163: a blank line is skipped
SkipBlankLine ==
    /\ pc = "for_line"
    /\ lines # <<>>
    /\ strip(Head(lines)) = <<>>
    /\ lines' = Tail(lines)
    /\ UNCHANGED <<text, lsd, rest, pc, words, units, item_start, item_text,
                   current_time, labels, last_note_end, notes, total, tokvars>>

\* lines 165-169: a cluster line is tokenized as a whole
StartCluster ==
    /\ pc = "for_line"
    /\ lines # <<>>
    /\ strip(Head(lines)) # <<>>
    /\ is_cluster(Head(lines))
    /\ units' = process_text(strip(Head(lines)), rest)
    /\ item_start' = current_time
    /\ item_text' = strip(Head(lines))
    /\ lines' = Tail(lines)
    /\ pc' = "cluster"
    /\ UNCHANGED <<text, lsd, rest, words, current_time, labels, last_note_end,
                   notes, total, tokvars>>

\* lines 196-197: any other line is split into words
StartWordLine ==
    /\ pc = "for_line"
    /\ lines # <<>>
    /\ strip(Head(lines)) # <<>>
    /\ ~is_cluster(Head(lines))
    /\ words' = split(strip(Head(lines)))
    /\ lines' = Tail(lines)
    /\ pc' = "for_word"
    /\ UNCHANGED <<text, lsd, rest, units, item_start, item_text, current_time,
                   labels, last_note_end, notes, total, tokvars>>

\* lines 198-200, 203: the next word is tokenized
StartWord ==
    /\ pc = "for_word"
    /\ words # <<>>
    /\ item_text' = join(process_text(Head(words), rest))
    /\ item_start' = current_time
    /\ units' = process_text(Head(words), rest)
    /\ words' = Tail(words)
    /\ pc' = "word"
    /\ UNCHANGED <<text, lsd, rest, lines, current_time, labels, last_note_end,
                   notes, total, tokvars>>

\* the for loop over the words ends
EndWordLine ==
    /\ pc = "for_word"
    /\ words = <<>>
    /\ pc' = "for_line"
    /\ UNCHANGED <<text, lsd, rest, lines, words, units, item_start, item_text,
                   current_time, labels, last_note_end, notes, total, tokvars>>

\* lines 173-175 (p = "cluster") and 205-207 (p = "word"): a rest
UnitRest(p) ==
    /\ pc = p
    /\ units # <<>>
    /\ IsRest(Head(units), rest)
    /\ current_time' = AfterRest(current_time)
    /\ units' = Tail(units)
    /\ UNCHANGED <<text, lsd, rest, pc, lines, words, item_start, item_text,
                   labels, last_note_end, notes, total, tokvars>>

\* lines 177-180 (p = "cluster") and 209-212 (p = "word"): a note
UnitNote(p) ==
    /\ pc = p
    /\ units # <<>>
    /\ ~IsRest(Head(units), rest)
    /\ notes' = Append(notes, [start |-> current_time,
                               duration |-> note_duration,
                               label |-> Len(labels) + 1])
    /\ current_time' = AfterNote(current_time)
    /\ units' = Tail(units)
    /\ UNCHANGED <<text, lsd, rest, pc, lines, words, item_start, item_text,
                   labels, last_note_end, total, tokvars>>

\* lines 182-195 (p = "cluster") and 214-227 (p = "word"): the label
ItemLabel(p, back) ==
    /\ pc = p
    /\ units = <<>>
    /\ labels' = Append(labels,
                        [start |-> ClampStart(LabelStart(item_start, lsd), labels),
                         end   |-> LabelEnd(current_time, lsd),
                         text  |-> item_text])
    /\ last_note_end' = current_time
    /\ current_time' = current_time + silence_duration
    /\ pc' = back
    /\ UNCHANGED <<text, lsd, rest, lines, words, units, item_start, item_text,
                   notes, total, tokvars>>

ClusterRest == UnitRest("cluster")
ClusterNote == UnitNote("cluster")
ClusterLabel == ItemLabel("cluster", "for_line")
WordRest == UnitRest("word")
WordNote == UnitNote("word")
WordLabel == ItemLabel("word", "for_word")

\* lines 229-231
Finish ==
    /\ pc = "for_line"
    /\ lines = <<>>
    /\ current_time' = current_time + final_silence
    /\ total' = TotalDuration(last_note_end, current_time + final_silence)
    /\ pc' = "done"
    /\ UNCHANGED <<text, lsd, rest, lines, words, units, item_start, item_text,
                   labels, last_note_end, notes, tokvars>>

Next ==
    \/ Start
    \/ SkipBlankLine
    \/ StartCluster
    \/ StartWordLine
    \/ StartWord
    \/ EndWordLine
    \/ ClusterRest
    \/ ClusterNote
    \/ ClusterLabel
    \/ WordRest
    \/ WordNote
    \/ WordLabel
    \/ Finish

Spec == Init /\ [][Next]_vars

(***************************************************************************)
(* Properties of create_midi (checked under Spec).                         *)
(***************************************************************************)

\* C1: adjacent labels never overlap: labels[k].end <= labels[k+1].start,
\* for every text, every label_silence_duration >= 0 and every mix of
\* cluster lines and word lines.
LabelsDoNotOverlap ==
    \A k \in 1..(Len(labels) - 1) : labels[k].end <= labels[k + 1].start

\* C1 witness: a second label whose start was clamped to the first one's end
\* because the label silence exceeds the gap between the two items.
ClampedLabelReached ==
    /\ pc = "done"
    /\ Len(labels) >= 2
    /\ 2 * lsd > silence_duration
    /\ labels[2].start = labels[1].end
    /\ labels[2].start > labels[1].end + silence_duration - 2 * lsd

\* C2: every label covers every note of its line or word:
\* label.start <= note start and note start + duration <= label.end.
LabelsCoverNotes ==
    \A n \in 1..Len(notes) :
        notes[n].label <= Len(labels) =>
            /\ labels[notes[n].label].start <= notes[n].start
            /\ notes[n].start + notes[n].duration <= labels[notes[n].label].end

\* C3: the duration returned is at least lead silence + trail silence +
\* final silence, that is 2 * label_silence_duration + final_silence.
TotalCoversSilences ==
    pc = "done" => total >= 2 * lsd + final_silence

\* The items of a text in input order, from the text alone: one per cluster
\* line and one per word of a word line, with the token that is tokenized
\* and the text its label carries.
RECURSIVE ItemsOf(_, _)
ItemsOf(ls, flag) ==
    IF ls = <<>> THEN <<>>
    ELSE LET l == strip(Head(ls))
             w == split(l)
             here == IF l = <<>> THEN <<>>
                     ELSE IF Len(w) = 1 /\ Len(l) > 1
                     THEN << [token |-> l, text |-> l] >>
                     ELSE [k \in 1..Len(w) |->
                              [token |-> w[k],
                               text |-> join(process_text(w[k], flag))]]
         IN  here \o ItemsOf(Tail(ls), flag)

\* The number of units of a token that are not a rest
NonRestCount(us, flag) ==
    Cardinality({k \in 1..Len(us) : ~(flag /\ us[k] = <<"_">>)})

\* C7: one note per non-rest unit and one label per cluster line and per
\* word, in input order, with strictly increasing note start times; the
\* example text a / i u gives one note under the label a, then two notes
\* under the label i u.
OneNotePerUnitOneLabelPerItem ==
    /\ \A n \in 1..(Len(notes) - 1) :
           /\ notes[n].start < notes[n + 1].start
           /\ notes[n].label <= notes[n + 1].label
    /\ pc = "done" =>
           LET items == ItemsOf(split_sep(strip(text), "\n"), rest)
           IN  /\ Len(labels) = Len(items)
               /\ \A k \in 1..Len(items) :
                      /\ labels[k].text = items[k].text
                      /\ Cardinality({n \in 1..Len(notes) : notes[n].label = k})
                            = NonRestCount(process_text(items[k].token, rest), rest)
               /\ \A n \in 1..Len(notes) : notes[n].label \in 1..Len(items)
    /\ (pc = "done" /\ text = <<"h_a", "\n", "h_i", "h_u", "\n">>) =>
           /\ [n \in 1..Len(notes) |-> notes[n].label] = <<1, 2, 2>>
           /\ [k \in 1..Len(labels) |-> labels[k].text] = << <<"h_a">>, <<"h_i", "h_u">> >>

\* C7 witness: the example text with the default configuration has run.
ExampleTextScheduled ==
    /\ pc = "done"
    /\ text = <<"h_a", "\n", "h_i", "h_u", "\n">>
    /\ lsd = default_label_silence_duration
    /\ ~rest
    /\ Len(notes) = 3
    /\ Len(labels) = 2

\* The step that consumes a rest sentinel with rest handling enabled
RestStep ==
    /\ pc \in {"cluster", "word"}
    /\ rest
    /\ units # <<>>
    /\ Head(units) = <<"_">>
    /\ units' = Tail(units)

\* C8 as stated: a rest sentinel emits no note and advances the cursor by
\* a rest duration strictly shorter than the note duration.
RestShorterThanNote ==
    [][RestStep =>
          /\ notes' = notes
          /\ current_time' > current_time
          /\ current_time' - current_time < note_duration]_vars

\* C8 as amended: a rest sentinel emits no note and advances the cursor by
\* note_duration, exactly as a note does.
RestAdvancesByNoteDuration ==
    [][RestStep =>
          /\ notes' = notes
          /\ current_time' = current_time + note_duration]_vars

\* C8 witness: a rest has been consumed; the cursor is one note_duration
\* past the start of the item and the item has no note yet.
RestConsumed ==
    /\ rest
    /\ pc \in {"cluster", "word"}
    /\ item_text # <<>>
    /\ item_text[1] = "_"
    /\ current_time = item_start + note_duration
    /\ \A n \in 1..Len(notes) : notes[n].label <= Len(labels)

\* C9: the duration returned is the final position of the cursor plus
\* final_silence (current_time after line 229).
TotalIsCursorPlusFinalSilence ==
    pc = "done" => total = current_time

(***************************************************************************)
(* Properties of the tokenizers (checked under SpecTok and SpecTokFair).   *)
(***************************************************************************)

\* C4: with treat_underscore_as_rest false no unit returned by process_text
\* is or contains '_'.
UnderscoreIgnoredWhenNotRest ==
    (tpc = "done" /\ ~rest) =>
        \A k \in 1..Len(processed) :
            \A j \in 1..Len(processed[k]) : processed[k][j] # "_"

\* The n characters of x from 0-based position p on
Sub(x, p, n) == SubSeq(x, p + 1, p + n)

\* A 3-character match at p: a table entry, or a 2-letter table entry
\* followed by a vowel
IsMatch3(x, p) ==
    /\ p + 3 <= Len(x)
    /\ \/ Sub(x, p, 3) \in romaji_combinations
       \/ Sub(x, p, 2) \in romaji_combinations /\ x[p + 3] \in Vowels

\* A 2-character match at p: a table entry, or consonant plus vowel
IsMatch2(x, p) ==
    /\ p + 2 <= Len(x)
    /\ \/ Sub(x, p, 2) \in romaji_combinations
       \/ x[p + 1] \in Consonants /\ x[p + 2] \in Vowels

\* C5: process_romaji is greedy longest-match-first, left to right: at
\* each position a 3-character match wins over a 2-character match, which
\* wins over a single character, the table match is taken first among
\* candidates of one length, the units emitted so far spell the text
\* scanned so far, shashi gives sha shi and kyo gives kyo.
RomajiGreedy ==
    (tpc = "romaji_loop" \/ (tpc = "done" /\ is_romaji(tok))) =>
        /\ t = lower(tok)
        /\ join(processed) = SubSeq(t, 1, i)
        /\ rule # "none" =>
              LET p == i - adv
              IN  /\ adv = IF IsMatch3(t, p) THEN 3
                           ELSE IF IsMatch2(t, p) THEN 2 ELSE 1
                  /\ processed[Len(processed)] = Sub(t, p, adv)
                  /\ (adv = 3 /\ Sub(t, p, 3) \in romaji_combinations)
                        <=> rule = "table3"
                  /\ (adv = 2 /\ Sub(t, p, 2) \in romaji_combinations)
                        <=> rule = "table2"
        /\ (tpc = "done" /\ tok = <<"s","h","a","s","h","i">>) =>
              processed = << <<"s","h","a">>, <<"s","h","i">> >>
        /\ (tpc = "done" /\ tok = <<"k","y","o">>) =>
              processed = << <<"k","y","o">> >>

\* C5 witness: shashi has been tokenized, the 3-character match winning
\* twice over the 2-character matches sh and ha / hi.
ShashiTokenized ==
    /\ tpc = "done"
    /\ tok = <<"s","h","a","s","h","i">>
    /\ Len(processed) = 2
    /\ rule = "table3"

\* What the kana rules give at 0-based position p of x: the unit and the
\* advance
KanaExpected(x, p) ==
    LET C == x[p + 1]
    IN  IF p + 1 = Len(x) THEN [unit |-> <<C>>, adv |-> 1]
        ELSE LET N == x[p + 2]
             IN  IF N \in small_kana THEN [unit |-> <<C, N>>, adv |-> 2]
                 ELSE IF C \in sokuon
                 THEN IF p + 3 <= Len(x) /\ x[p + 3] \in small_kana
                      THEN [unit |-> <<N, x[p + 3]>>, adv |-> 3]
                      ELSE [unit |-> <<N>>, adv |-> 2]
                 ELSE IF N \in small_katakana THEN [unit |-> <<C, N>>, adv |-> 2]
                 ELSE [unit |-> <<C>>, adv |-> 1]

IterationInBounds ==
    /\ i <= Len(t)
    /\ rule # "none" => (adv \in 1..3 /\ read >= 0 /\ read < Len(t))
    /\ \A k \in 1..Len(processed) :
           \A j \in 1..Len(processed[k]) : processed[k][j] # "IndexError"

\* C10: tokenization is total and terminates: every iteration advances
\* the index by 1 to 3, reads no position at or past the end of the input,
\* and the call eventually returns.
TokenizationTerminates ==
    /\ []IterationInBounds
    /\ [][(tpc \in {"romaji_loop", "kana_loop"} /\ tpc' = tpc)
             => (i' - i \in 1..3 /\ i' <= Len(t))]_vars
    /\ <>(tpc = "done")

\* C10 witness: a call has returned after an iteration that consumed three
\* characters up to the very end of a token with an underscore in it.
LongestStepAtEndReturned ==
    /\ tpc = "done"
    /\ adv = 3
    /\ i = Len(t)
    /\ read = Len(t) - 1
    /\ \E k \in 1..Len(tok) : tok[k] = "_"

====
